---- MODULE Spec2Model ----
(***************************************************************************)
(* Model of weko_swordserver/mapper.py (class WekoSwordMapper).            *)
(*                                                                         *)
(* JSON values are tagged records:                                         *)
(*   None            Python None / JSON null                               *)
(*   S(x)            a scalar (string)                                     *)
(*   O(f)            a dict, f a function from a finite set of keys        *)
(*   L(q)            a list, q a sequence                                  *)
(* A dotted path is kept as the sequence of its segments, i.e. as the      *)
(* result of str.split('.'), which is never the empty sequence.            *)
(* A function that may raise returns [err |-> e, ...] where e = "" means   *)
(* that it returned normally.                                              *)
(***************************************************************************)
EXTENDS Integers, Sequences, FiniteSets, TLC

VARIABLES
    json,       \* self.json['record']['metadata']
    json_map,   \* self.json_map: the items (k, v) in iteration order
    item_map,   \* the dict _create_item_map() returns: rule id -> target path
    metadata,   \* the dict _create_metadata builds
    cur,        \* number of items of json_map the running loop has taken
    status,     \* "running", "returned" or "raised"
    error,      \* the exception raised, "" when none
    pre,        \* metadata as it was before the last iteration
    error_msg,  \* error_msg of validate_mapping
    call,       \* the method that was called
    result,     \* the value the called method returned
    fn_in,      \* argument of a function applied on its own
    fn_out      \* its result

vars == <<json, json_map, item_map, metadata, cur, status, error, pre,
          error_msg, call, result, fn_in, fn_out>>

(***************************************************************************)
(* Bounds of the model.                                                    *)
(***************************************************************************)
MaxRules == 2
MaxPathLen == 3
MaxDepth == 4
MaxIds == 3

(***************************************************************************)
(* JSON values.                                                            *)
(***************************************************************************)
None == [t |-> "n"]
S(x) == [t |-> "s", s |-> x]
O(f) == [t |-> "o", o |-> f]
L(q) == [t |-> "l", l |-> q]
EmptyObj == O([k \in {} |-> None])

IsDict(v) == v.t = "o"
IsList(v) == v.t = "l"

\* Python truth value of "not v".
Falsy(v) ==
    \/ v.t = "n"
    \/ (v.t = "s" /\ v.s = "")
    \/ (v.t = "o" /\ DOMAIN v.o = {})
    \/ (v.t = "l" /\ v.l = <<>>)

\* dict.get(k): None when the key is missing.
Get(d, k) == IF k \in DOMAIN d.o THEN d.o[k] ELSE None

\* d[k] = v
Put(d, k, v) == O([x \in (DOMAIN d.o) \cup {k} |-> IF x = k THEN v ELSE d.o[x]])

\* One-key and two-key dict literals.
D1(k, v) == O([x \in {k} |-> v])
D2(k1, v1, k2, v2) == O([x \in {k1, k2} |-> IF x = k1 THEN v1 ELSE v2])

Ok(v) == [err |-> "", v |-> v]
Fail(e) == [err |-> e, v |-> None]

(***************************************************************************)
(* _get_dimensions                                                         *)
(***************************************************************************)
RECURSIVE GetDimensions(_)
GetDimensions(lst) ==
    IF ~IsList(lst) THEN 0
    ELSE IF lst.l = <<>> THEN 1
    ELSE 1 + GetDimensions(lst.l[1])

(***************************************************************************)
(* _get_json_metadata_value and its inner functions.                       *)
(***************************************************************************)
RECURSIVE DetectDict(_, _, _), DetectList(_, _, _), DetectListLoop(_, _, _, _, _)

DetectDict(json_keys, dict_, in_list) ==
    IF json_keys = <<>> THEN Fail("IndexError")
    ELSE
    LET value == Get(dict_, json_keys[1]) IN
    IF value = None THEN Fail("MissingKey")
    ELSE IF IsDict(value) THEN
        IF Len(json_keys) = 1 THEN Ok(value)
        ELSE DetectDict(Tail(json_keys), value, in_list)
    ELSE IF IsList(value) THEN
        IF Len(json_keys) = 1 THEN Ok(value)
        ELSE DetectList(Tail(json_keys), value.l, TRUE)
    ELSE
        IF Len(json_keys) = 1 THEN Ok(value)
        ELSE Fail("PathExhaustedEarly")

\* The for loop of _detect_list from element i on, list_result so far.
DetectListLoop(i, json_keys, list_, in_list, list_result) ==
    IF i > Len(list_) THEN Ok(L(list_result))
    ELSE
    LET value == list_[i] IN
    IF IsDict(value) THEN
        LET r == DetectDict(json_keys, value, in_list) IN
        IF r.err # "" THEN r
        ELSE DetectListLoop(i + 1, json_keys, list_, in_list, Append(list_result, r.v))
    ELSE IF IsList(value) THEN Fail("NestedListUnsupported")
    ELSE Fail("ValueExhaustedEarly")

DetectList(json_keys, list_, in_list) ==
    IF ~in_list THEN Fail("ListNotIterable")
    ELSE DetectListLoop(1, json_keys, list_, in_list, <<>>)

\* record_metadata is self.json['record']['metadata']; the result None
\* (with err = "") is the "return None" of the code.
GetJsonMetadataValue(record_metadata, json_keys) ==
    LET value == Get(record_metadata, json_keys[1]) IN
    IF value = None THEN Ok(None)
    ELSE IF IsDict(value) THEN
        IF Len(json_keys) = 1 THEN Ok(value)
        ELSE DetectDict(Tail(json_keys), value, FALSE)
    ELSE IF IsList(value) THEN DetectList(Tail(json_keys), value.l, TRUE)
    ELSE
        IF Len(json_keys) = 1 THEN Ok(value)
        ELSE Fail("PathExhaustedEarly")

(***************************************************************************)
(* The item type schema: "properties" of self.itemtype.schema. A node is   *)
(* [type, props]; props is "properties" of an object and                   *)
(* "items.properties" of an array.                                         *)
(***************************************************************************)
NoProps == [k \in {} |-> None]
SValue == [type |-> "string", props |-> NoProps]
SObject(p) == [type |-> "object", props |-> p]
SArray(p) == [type |-> "array", props |-> p]

ItemTypeSchema ==
    [k \in {"t", "o", "p"} |->
        CASE k = "t" -> SValue
          [] k = "o" -> SObject([x \in {"q", "r"} |-> SValue])
          [] k = "p" -> SArray([x \in {"q", "r", "s"} |->
                            IF x = "s" THEN SArray([y \in {"u"} |-> SValue])
                            ELSE SValue])]

SchemaKeys == {"t", "o", "p", "q", "r", "s", "u"}

(***************************************************************************)
(* _get_type_of_item_type_path                                             *)
(***************************************************************************)
RECURSIVE TypeLoop(_, _, _, _)
\* The for loop from segment i on.
TypeLoop(i, item_map_keys, current_schema, type_of_item_type_path) ==
    IF i > Len(item_map_keys) THEN Ok(type_of_item_type_path)
    ELSE
    LET item_map_key == item_map_keys[i] IN
    IF item_map_key \notin DOMAIN current_schema THEN Fail("UndefinedInSchema")
    ELSE IF current_schema[item_map_key].type = "object" THEN
        TypeLoop(i + 1, item_map_keys, current_schema[item_map_key].props,
                 Append(type_of_item_type_path, "object"))
    ELSE IF current_schema[item_map_key].type = "array" THEN
        TypeLoop(i + 1, item_map_keys, current_schema[item_map_key].props,
                 Append(type_of_item_type_path, "array"))
    ELSE
        TypeLoop(i + 1, item_map_keys, current_schema,
                 Append(type_of_item_type_path, "value"))

GetTypeOfItemTypePath(schema, item_map_keys) ==
    LET r == TypeLoop(1, item_map_keys, schema, <<>>) IN
    IF r.err # "" THEN r
    ELSE IF Len(r.v) # Len(item_map_keys) THEN Fail("InvalidSchemaPath")
    ELSE IF r.v[Len(r.v)] # "value" THEN Fail("InvalidSchemaPath")
    ELSE r

(***************************************************************************)
(* _create_child_metadata_of_a_property. The dict child_metadata is        *)
(* mutated in place by the code; here the mutated dict is returned in m,   *)
(* together with the error raised (writes made before a raise are kept).   *)
(***************************************************************************)
Done(m) == [err |-> "", m |-> m]
Raise(e, m) == [err |-> e, m |-> m]

\* "array" entries of the kind sequence: type_of_item_type_path.count("array")
CountArray(type_of_item_type_path) ==
    Cardinality({i \in DOMAIN type_of_item_type_path :
                    type_of_item_type_path[i] = "array"})

\* EmptyObjs building one object more than the source list has elements.
EmptyObjsOneExtra(n) == L([i \in 1..(n + 1) |-> EmptyObj])

\* [{} for _ in range(n)]
EmptyObjs(n) == L([i \in 1..n |-> EmptyObj])

RECURSIVE CreateChildMetadataOfAProperty(_, _, _, _, _), ChildLoop(_, _, _, _, _, _)

\* ChildLoop handing the first source element to every list element.
ChildLoopFirstElement(i, diff_array, lst, item_map_keys, type_of_item_type_path, json_value) ==
    IF i > Len(json_value.l) THEN Done(lst)
    ELSE IF i > Len(lst) THEN Raise("IndexError", lst)
    ELSE
    LET r == CreateChildMetadataOfAProperty(diff_array, lst[i], item_map_keys,
                                            type_of_item_type_path, json_value.l[1])
        lst1 == [lst EXCEPT ![i] = r.m]
    IN  IF r.err # "" THEN Raise(r.err, lst1)
        ELSE ChildLoop(i + 1, diff_array, lst1, item_map_keys,
                       type_of_item_type_path, json_value)

\* for i in range(len(json_value)): child(diff_array, lst[i], ..., json_value[i])
\* from index i on; lst is the list held at the array key.
ChildLoop(i, diff_array, lst, item_map_keys, type_of_item_type_path, json_value) ==
    IF i > Len(json_value.l) THEN Done(lst)
    ELSE IF i > Len(lst) THEN Raise("IndexError", lst)
    ELSE
    LET r == CreateChildMetadataOfAProperty(diff_array, lst[i], item_map_keys,
                                            type_of_item_type_path, json_value.l[i])
        lst1 == [lst EXCEPT ![i] = r.m]
    IN  IF r.err # "" THEN Raise(r.err, lst1)
        ELSE ChildLoop(i + 1, diff_array, lst1, item_map_keys,
                       type_of_item_type_path, json_value)

\* The branch taken for an "object" key with more keys remaining.
ObjectBranch(diff_array, node, item_map_keys, type_of_item_type_path, json_value) ==
    LET key == item_map_keys[1]
        node1 == IF Falsy(Get(node, key)) THEN Put(node, key, EmptyObj) ELSE node
        r == CreateChildMetadataOfAProperty(diff_array, node1.o[key], Tail(item_map_keys),
                                            Tail(type_of_item_type_path), json_value)
    IN  [err |-> r.err, m |-> Put(node1, key, r.m)]

\* SingleWrapBranch that does not decrement diff_array.
SingleWrapBranchNoDecrement(diff_array, node, item_map_keys, type_of_item_type_path, json_value) ==
    LET key == item_map_keys[1]
        node1 == IF Falsy(Get(node, key)) THEN Put(node, key, L(<<EmptyObj>>)) ELSE node
        held == node1.o[key]
    IN  IF ~IsList(held) THEN Raise("TypeError", node1)
        ELSE
        LET r == CreateChildMetadataOfAProperty(diff_array, held.l[1],
                                                Tail(item_map_keys),
                                                Tail(type_of_item_type_path), json_value)
        IN  [err |-> r.err, m |-> Put(node1, key, L([held.l EXCEPT ![1] = r.m]))]

\* The branch taken for an "array" key with diff_array > 0: [{}] and its sole element.
SingleWrapBranch(diff_array, node, item_map_keys, type_of_item_type_path, json_value) ==
    LET key == item_map_keys[1]
        node1 == IF Falsy(Get(node, key)) THEN Put(node, key, L(<<EmptyObj>>)) ELSE node
        held == node1.o[key]
    IN  IF ~IsList(held) THEN Raise("TypeError", node1)
        ELSE
        LET r == CreateChildMetadataOfAProperty(diff_array - 1, held.l[1],
                                                Tail(item_map_keys),
                                                Tail(type_of_item_type_path), json_value)
        IN  [err |-> r.err, m |-> Put(node1, key, L([held.l EXCEPT ![1] = r.m]))]

\* ReplicateBranch that appends the new objects to a list already held.
ReplicateBranchAppending(diff_array, node, item_map_keys, type_of_item_type_path, json_value, dim_json_value) ==
    LET key == item_map_keys[1] IN
    IF dim_json_value = 0 THEN Raise("ArrayRequiresListValue", node)
    ELSE
    LET node1 == IF Falsy(Get(node, key))
                 THEN Put(node, key, EmptyObjs(Len(json_value.l)))
                 ELSE IF IsList(node.o[key])
                 THEN Put(node, key, L(node.o[key].l \o EmptyObjs(Len(json_value.l)).l))
                 ELSE node
        held == node1.o[key]
    IN  IF ~IsList(held) THEN Raise("TypeError", node1)
        ELSE
        LET r == ChildLoop(1, diff_array, held.l, Tail(item_map_keys),
                           Tail(type_of_item_type_path), json_value)
        IN  [err |-> r.err, m |-> Put(node1, key, L(r.m))]

\* The branch taken for an "array" key with diff_array = 0: one {} per element.
ReplicateBranch(diff_array, node, item_map_keys, type_of_item_type_path, json_value, dim_json_value) ==
    LET key == item_map_keys[1] IN
    IF dim_json_value = 0 THEN Raise("ArrayRequiresListValue", node)
    ELSE
    LET node1 == IF Falsy(Get(node, key))
                 THEN Put(node, key, EmptyObjs(Len(json_value.l))) ELSE node
        held == node1.o[key]
    IN  IF ~IsList(held) THEN Raise("TypeError", node1)
        ELSE
        LET r == ChildLoop(1, diff_array, held.l, Tail(item_map_keys),
                           Tail(type_of_item_type_path), json_value)
        IN  [err |-> r.err, m |-> Put(node1, key, L(r.m))]

CreateChildMetadataOfAProperty(diff_array, child_metadata, item_map_keys, type_of_item_type_path, json_value) ==
    LET dim_json_value == GetDimensions(json_value)
        key == item_map_keys[1]
        type == type_of_item_type_path[1]
    IN
    IF ~IsDict(child_metadata) THEN Raise("TypeError", child_metadata)
    ELSE IF Len(item_map_keys) = 1 \/ type = "value" THEN
        IF json_value # None THEN Done(Put(child_metadata, key, json_value))
        ELSE Done(child_metadata)
    ELSE IF type = "object" THEN
        ObjectBranch(diff_array, child_metadata, item_map_keys,
                     type_of_item_type_path, json_value)
    ELSE IF type = "array" THEN
        IF diff_array > 0 THEN
            SingleWrapBranch(diff_array, child_metadata, item_map_keys,
                             type_of_item_type_path, json_value)
        ELSE
            ReplicateBranch(diff_array, child_metadata, item_map_keys,
                            type_of_item_type_path, json_value, dim_json_value)
    ELSE Done(child_metadata)

(***************************************************************************)
(* _create_metadata_of_a_property                                          *)
(***************************************************************************)
\* Reconcile with the dimension check dropped: any value too deep is cut to
\* its first element.
ReconcileAlwaysCollapse(type_of_item_type_path, json_value) ==
    IF GetDimensions(json_value) > CountArray(type_of_item_type_path) THEN
        IF json_value.l = <<>> THEN Fail("IndexError")
        ELSE Ok(json_value.l[1])
    ELSE Ok(json_value)

\* Lines 284-297: the value used after the dimension check. json_value[0]
\* of an empty list raises IndexError.
Reconcile(type_of_item_type_path, json_value) ==
    LET dim_json_value == GetDimensions(json_value)
        num_array_type == CountArray(type_of_item_type_path)
    IN  IF dim_json_value > num_array_type THEN
            IF dim_json_value - num_array_type = 1 THEN
                IF json_value.l = <<>> THEN Fail("IndexError")
                ELSE Ok(json_value.l[1])
            ELSE Fail("TooManyDimensions")
        ELSE Ok(json_value)

\* Line 301, for the value Reconcile returns.
DiffArray(type_of_item_type_path, json_value) ==
    CountArray(type_of_item_type_path) - GetDimensions(json_value)

CreateMetadataOfAProperty(md, item_map_keys, type_of_item_type_path, json_value0) ==
    LET rec == Reconcile(type_of_item_type_path, json_value0) IN
    IF rec.err # "" THEN Raise(rec.err, md)
    ELSE
    LET json_value == rec.v
        dim_json_value == GetDimensions(json_value)
        diff_array == DiffArray(type_of_item_type_path, json_value)
        key == item_map_keys[1]
        type == type_of_item_type_path[1]
    IN
    IF Len(item_map_keys) = 1 THEN
        IF dim_json_value > 0 THEN
            IF json_value.l = <<>> THEN Raise("IndexError", md)
            ELSE Done(Put(md, key, json_value.l[1]))
        ELSE Done(Put(md, key, json_value))
    ELSE IF type = "value" THEN Raise("ValueNotLast", md)
    ELSE IF type = "object" THEN
        ObjectBranch(diff_array, md, item_map_keys, type_of_item_type_path, json_value)
    ELSE IF type = "array" THEN
        IF diff_array > 0 THEN
            SingleWrapBranch(diff_array, md, item_map_keys,
                             type_of_item_type_path, json_value)
        ELSE
            ReplicateBranch(diff_array, md, item_map_keys,
                            type_of_item_type_path, json_value, dim_json_value)
    ELSE Done(md)

(***************************************************************************)
(* A record and the mapping rules the mapper is constructed with.          *)
(***************************************************************************)
SampleRecord ==
    [k \in {"title", "au", "em", "g", "rg", "dd", "nl"} |->
        CASE k = "title" -> S("x")
          [] k = "au" -> L(<<D1("n", S("x")), D1("n", S("y"))>>)
          [] k = "em" -> L(<<>>)
          [] k = "g" -> L(<<D1("m", L(<<D1("n", S("x"))>>)),
                            D1("m", L(<<D1("n", S("y")), D1("n", S("z"))>>))>>)
          [] k = "rg" -> L(<<D1("m", L(<<D1("n", S("x"))>>)),
                             D1("m", D1("n", S("y")))>>)
          [] k = "dd" -> L(<<D1("m", L(<<D1("k", L(<<D1("n", S("x"))>>))>>))>>)
          [] k = "nl" -> None]

\* Source paths that resolve to a value or to nothing ("zz"), and target
\* paths whose kinds the schema resolves.
SourcePaths ==
    { <<"title">>, <<"au", "n">>, <<"em", "n">>, <<"g", "m", "n">>,
      <<"rg", "m", "n">>, <<"zz">> }
TargetPaths ==
    { <<"t">>, <<"o", "q">>, <<"o", "r">>, <<"p", "q">>, <<"p", "r">>,
      <<"p", "s", "u">>, <<"p", "q", "s", "u">> }

\* NoTarget: the rule id is not a key of item_map.
NoTarget == <<>>

\* The rules (source path, target path) a json_map / item_map pair is drawn
\* from: the pairs above and rules on which an iteration raises.
RulePool ==
    (SourcePaths \X TargetPaths) \cup
    { << <<"title", "n">>, <<"t">> >>,
      << <<"dd", "m", "k", "n">>, <<"p", "q">> >>,
      << <<"title">>, <<"o">> >>,
      << <<"title">>, <<"t", "t">> >>,
      << <<"title">>, NoTarget >>,
      << <<"zz">>, NoTarget >>,
      << <<"zz">>, <<"o">> >> }

RuleIds == <<"r1", "r2", "r3", "r4">>

MakeJsonMap(rules) == [i \in DOMAIN rules |-> [k |-> RuleIds[i], v |-> rules[i][1]]]
MakeItemMap(rules) ==
    [id \in {RuleIds[i] : i \in {j \in DOMAIN rules : rules[j][2] # NoTarget}} |->
        rules[CHOOSE i \in DOMAIN rules : RuleIds[i] = id][2]]

Idle ==
    /\ error_msg = <<>>
    /\ call = "_create_metadata"
    /\ result = None
    /\ fn_in = <<>>
    /\ fn_out = Ok(None)

Init ==
    /\ json = O(SampleRecord)
    /\ \E n \in 0..MaxRules :
         \E rules \in [1..n -> RulePool] :
            /\ json_map = MakeJsonMap(rules)
            /\ item_map = MakeItemMap(rules)
    /\ metadata = EmptyObj
    /\ cur = 0
    /\ status = "running"
    /\ error = ""
    /\ pre = EmptyObj
    /\ Idle

(***************************************************************************)
(* _create_metadata: one iteration of "for k, v in self.json_map.items()". *)
(***************************************************************************)
\* Iteration with item_map[k] and the kinds looked up before the value is
\* tested for None.
IterationTargetFirst(record_metadata, rules, targets, md, i) ==
    LET k == rules[i].k
        json_value == GetJsonMetadataValue(record_metadata, rules[i].v)
    IN
    IF json_value.err # "" THEN [skip |-> FALSE, err |-> json_value.err, m |-> md]
    ELSE IF k \notin DOMAIN targets THEN [skip |-> FALSE, err |-> "KeyError", m |-> md]
    ELSE
    LET type_of_item_type_path == GetTypeOfItemTypePath(ItemTypeSchema, targets[k]) IN
    IF type_of_item_type_path.err # ""
    THEN [skip |-> FALSE, err |-> type_of_item_type_path.err, m |-> md]
    ELSE IF json_value.v = None THEN [skip |-> TRUE, err |-> "", m |-> md]
    ELSE
    LET r == CreateMetadataOfAProperty(md, targets[k], type_of_item_type_path.v,
                                       json_value.v)
    IN  [skip |-> FALSE, err |-> r.err, m |-> r.m]

\* What the iteration over item i does to the dict md:
\* [skip, err, m] with skip for "continue".
Iteration(record_metadata, rules, targets, md, i) ==
    LET k == rules[i].k
        json_value == GetJsonMetadataValue(record_metadata, rules[i].v)
    IN
    IF json_value.err # "" THEN [skip |-> FALSE, err |-> json_value.err, m |-> md]
    ELSE IF json_value.v = None THEN [skip |-> TRUE, err |-> "", m |-> md]
    ELSE IF k \notin DOMAIN targets THEN [skip |-> FALSE, err |-> "KeyError", m |-> md]
    ELSE
    LET type_of_item_type_path == GetTypeOfItemTypePath(ItemTypeSchema, targets[k]) IN
    IF type_of_item_type_path.err # ""
    THEN [skip |-> FALSE, err |-> type_of_item_type_path.err, m |-> md]
    ELSE
    LET r == CreateMetadataOfAProperty(md, targets[k], type_of_item_type_path.v,
                                       json_value.v)
    IN  [skip |-> FALSE, err |-> r.err, m |-> r.m]

Step == Iteration(json, json_map, item_map, metadata, cur + 1)

InLoop == status = "running" /\ cur < Len(json_map)

\* json_value is None: continue
SkipRule ==
    /\ InLoop
    /\ Step.skip
    /\ cur' = cur + 1
    /\ pre' = metadata
    /\ UNCHANGED <<json, json_map, item_map, metadata, status, error,
                   error_msg, call, result, fn_in, fn_out>>

\* the rule is applied and the loop goes on
ApplyRule ==
    /\ InLoop
    /\ ~Step.skip /\ Step.err = ""
    /\ cur' = cur + 1
    /\ pre' = metadata
    /\ metadata' = Step.m
    /\ UNCHANGED <<json, json_map, item_map, status, error,
                   error_msg, call, result, fn_in, fn_out>>

\* the iteration raises: _create_metadata ends with the exception
RaiseRule ==
    /\ InLoop
    /\ ~Step.skip /\ Step.err # ""
    /\ cur' = cur + 1
    /\ pre' = metadata
    /\ metadata' = Step.m
    /\ status' = "raised"
    /\ error' = Step.err
    /\ UNCHANGED <<json, json_map, item_map, error_msg, call, result, fn_in, fn_out>>

\* return metadata
ReturnMetadata ==
    /\ status = "running" /\ cur = Len(json_map)
    /\ status' = "returned"
    /\ result' = metadata
    /\ UNCHANGED <<json, json_map, item_map, metadata, cur, error, pre,
                   error_msg, call, fn_in, fn_out>>

Next == SkipRule \/ ApplyRule \/ RaiseRule \/ ReturnMetadata

Spec == Init /\ [][Next]_vars

(***************************************************************************)
(* The last iteration of the loop, for the properties below.               *)
(***************************************************************************)
Last == json_map[cur]
LastValue == GetJsonMetadataValue(json, Last.v)
LastKeys == item_map[Last.k]
LastKinds == GetTypeOfItemTypePath(ItemTypeSchema, LastKeys)

\* The last iteration called _create_metadata_of_a_property.
Called ==
    /\ cur >= 1
    /\ LastValue.err = "" /\ LastValue.v # None
    /\ Last.k \in DOMAIN item_map
    /\ LastKinds.err = ""

LastDim == GetDimensions(LastValue.v)
LastArrays == CountArray(LastKinds.v)

\* The source path of the last rule resolves to nothing.
LastAbsent == cur >= 1 /\ Last.v[1] \notin DOMAIN json.o

(***************************************************************************)
(* C7. TooManyDimensions: when the dimension of the extracted value        *)
(* exceeds the number of "array" kinds by more than one, the rule raises   *)
(* the mapping error and the output tree is what it was before the rule.   *)
(***************************************************************************)
C7_TooManyDimensions ==
    (Called /\ LastDim - LastArrays > 1) =>
        /\ status = "raised"
        /\ error = "TooManyDimensions"
        /\ metadata = pre

\* A rule two dimensions too deep was applied to a tree that held a leaf.
C7_Witness ==
    /\ Called /\ LastDim - LastArrays > 1
    /\ pre # EmptyObj
    /\ status = "raised"

(***************************************************************************)
(* C9. Absent-source skip: a rule whose source path resolves to nothing    *)
(* raises nothing, leaves the output tree as it was, and the loop goes on  *)
(* with the remaining rules.                                               *)
(***************************************************************************)
C9_AbsentSourceSkipped ==
    LastAbsent =>
        /\ error = ""
        /\ metadata = pre
        /\ status # "raised"
        /\ (cur < Len(json_map) => InLoop)

\* An absent rule, its id no key of item_map, was skipped on a tree that
\* already held the leaf of an earlier rule.
C9_Witness ==
    /\ LastAbsent
    /\ Last.k \notin DOMAIN item_map
    /\ pre # EmptyObj
    /\ metadata = pre
    /\ status = "running"

(***************************************************************************)
(* _get_type_of_item_type_path applied on its own to every path of at most *)
(* MaxPathLen segments over the property names of the schema and one name  *)
(* the schema does not declare.                                            *)
(***************************************************************************)
PathsOver(keys, n) == UNION { [1..m -> keys] : m \in 1..n }

Parked ==
    /\ json_map = <<>>
    /\ item_map = [id \in {} |-> <<>>]
    /\ metadata = EmptyObj
    /\ cur = 0
    /\ status = "running"
    /\ error = ""
    /\ pre = EmptyObj
    /\ error_msg = <<>>
    /\ result = None
    /\ fn_out = Ok(None)

InitKinds ==
    /\ json = EmptyObj
    /\ call = "_get_type_of_item_type_path"
    /\ fn_in \in PathsOver(SchemaKeys \cup {"zz"}, MaxPathLen)
    /\ Parked

ResolveKinds ==
    /\ call = "_get_type_of_item_type_path"
    /\ status = "running"
    /\ fn_out' = GetTypeOfItemTypePath(ItemTypeSchema, fn_in)
    /\ status' = IF fn_out'.err = "" THEN "returned" ELSE "raised"
    /\ error' = fn_out'.err
    /\ UNCHANGED <<json, json_map, item_map, metadata, cur, pre,
                   error_msg, call, result, fn_in>>

NextKinds == ResolveKinds

SpecKinds == InitKinds /\ [][NextKinds]_vars

\* Some segment before the last is declared by the schema, at the level the
\* path reaches it, as neither object nor array.
RECURSIVE ScalarBeforeEnd(_, _)
ScalarBeforeEnd(schema, keys) ==
    /\ Len(keys) >= 2
    /\ keys[1] \in DOMAIN schema
    /\ \/ schema[keys[1]].type \notin {"object", "array"}
       \/ ScalarBeforeEnd(schema[keys[1]].props, Tail(keys))

(***************************************************************************)
(* C4. The kinds of a target path: the resolution fails when segments      *)
(* follow a segment the schema declares as a scalar; a sequence that is    *)
(* returned has one entry per segment and "value" in its last position     *)
(* and nowhere else.                                                       *)
(***************************************************************************)
C4_ValueOnlyLast ==
    (call = "_get_type_of_item_type_path" /\ status # "running") =>
        /\ ScalarBeforeEnd(ItemTypeSchema, fn_in) => status = "raised"
        /\ status = "returned" =>
            /\ Len(fn_out.v) = Len(fn_in)
            /\ fn_out.v[Len(fn_in)] = "value"
            /\ \A i \in 1..(Len(fn_in) - 1) : fn_out.v[i] # "value"

(***************************************************************************)
(* _get_json_metadata_value applied on its own: the record metadata is     *)
(* {"a": v} with v any value of nesting depth at most MaxDepth over the    *)
(* keys b and c, the path starts at a (or at the absent key z).            *)
(***************************************************************************)
RECURSIVE Values(_)
Values(n) ==
    IF n = 0 THEN {S("1")}
    ELSE LET sub == Values(n - 1) IN
         {S("1"), L(<<>>)}
           \cup { D1(k, v) : k \in {"b", "c"}, v \in sub }
           \cup { L(<<v>>) : v \in sub }
           \cup { L(<<v, v>>) : v \in sub }

InitSource ==
    /\ call = "_get_json_metadata_value"
    /\ \E v \in Values(MaxDepth) : json = D1("a", v)
    /\ \E p \in PathsOver({"b", "c"}, MaxPathLen - 1) \cup {<<>>} :
         \E first \in {"a", "z"} : fn_in = <<first>> \o p
    /\ Parked

ResolveSource ==
    /\ call = "_get_json_metadata_value"
    /\ status = "running"
    /\ fn_out' = GetJsonMetadataValue(json, fn_in)
    /\ status' = IF fn_out'.err = "" THEN "returned" ELSE "raised"
    /\ error' = fn_out'.err
    /\ UNCHANGED <<json, json_map, item_map, metadata, cur, pre,
                   error_msg, call, result, fn_in>>

NextSource == ResolveSource

SpecSource == InitSource /\ [][NextSource]_vars

\* The number of list-valued nodes met while following json_keys from node,
\* through the first element of each list.
RECURSIVE ListsOnPath(_, _)
ListsOnPath(node, json_keys) ==
    IF IsList(node) THEN
        IF node.l = <<>> \/ json_keys = <<>> THEN 1
        ELSE 1 + ListsOnPath(node.l[1], json_keys)
    ELSE IF IsDict(node) /\ json_keys # <<>> /\ json_keys[1] \in DOMAIN node.o THEN
        ListsOnPath(node.o[json_keys[1]], Tail(json_keys))
    ELSE 0

(***************************************************************************)
(* C5. Source-side resolve: the dimension of a value that is returned      *)
(* equals the number of list-valued nodes met while the path was followed. *)
(***************************************************************************)
C5_DepthIsListsTraversed ==
    (call = "_get_json_metadata_value" /\ status = "returned" /\ fn_out.v # None) =>
        GetDimensions(fn_out.v) = ListsOnPath(json, fn_in)

(***************************************************************************)
(* validate_mapping and is_valid_mapping. json_map holds up to MaxIds      *)
(* rule ids in any order, item_map any subset of the ids.                  *)
(***************************************************************************)
B(b) == [t |-> "b", b |-> b]

Ids == {RuleIds[i] : i \in 1..MaxIds}

\* f"{k} is not defined."
NotDefined(k) == k \o " is not defined."

\* Lines 457-458: error_msg after the iteration over rule id k.
\* The mutant appends for the ids that are defined.
CollectInverted(msgs, k, targets) ==
    IF k \in DOMAIN targets THEN Append(msgs, NotDefined(k)) ELSE msgs

Collect(msgs, k, targets) ==
    IF k \notin DOMAIN targets THEN Append(msgs, NotDefined(k)) ELSE msgs

InitValidate ==
    /\ call \in {"validate_mapping", "is_valid_mapping"}
    /\ \E n \in 0..MaxIds :
         \E ks \in [1..n -> Ids] :
            /\ \A i, j \in 1..n : ks[i] = ks[j] => i = j
            /\ json_map = [i \in 1..n |-> [k |-> ks[i], v |-> <<"title">>]]
    /\ \E defined \in SUBSET Ids : item_map = [id \in defined |-> <<"t">>]
    /\ json = O(SampleRecord)
    /\ metadata = EmptyObj
    /\ cur = 0
    /\ status = "running"
    /\ error = ""
    /\ pre = EmptyObj
    /\ error_msg = <<>>
    /\ result = None
    /\ fn_in = <<>>
    /\ fn_out = Ok(None)

InValidate == call \in {"validate_mapping", "is_valid_mapping"} /\ status = "running"

\* for k, v in self.json_map.items(): one iteration
ValidateRule ==
    /\ InValidate
    /\ cur < Len(json_map)
    /\ cur' = cur + 1
    /\ error_msg' = Collect(error_msg, json_map[cur + 1].k, item_map)
    /\ UNCHANGED <<json, json_map, item_map, metadata, status, error, pre,
                   call, result, fn_in, fn_out>>

\* if error_msg: raise WekoSwordserverException(error_msg); is_valid_mapping
\* catches it and returns False.
ValidateRaise ==
    /\ InValidate
    /\ cur = Len(json_map)
    /\ error_msg # <<>>
    /\ IF call = "is_valid_mapping"
       THEN status' = "returned" /\ result' = B(FALSE) /\ error' = error
       ELSE status' = "raised" /\ error' = "WekoSwordserverException" /\ result' = result
    /\ UNCHANGED <<json, json_map, item_map, metadata, cur, pre,
                   error_msg, call, fn_in, fn_out>>

\* validate_mapping returns None; is_valid_mapping returns True.
ValidateReturn ==
    /\ InValidate
    /\ cur = Len(json_map)
    /\ error_msg = <<>>
    /\ status' = "returned"
    /\ result' = IF call = "is_valid_mapping" THEN B(TRUE) ELSE None
    /\ UNCHANGED <<json, json_map, item_map, metadata, cur, error, pre,
                   error_msg, call, fn_in, fn_out>>

NextValidate == ValidateRule \/ ValidateRaise \/ ValidateReturn

SpecValidate == InitValidate /\ [][NextValidate]_vars

\* The rule ids the loop has inspected that item_map does not define.
InspectedMissing == {json_map[i].k : i \in {j \in 1..cur : json_map[j].k \notin DOMAIN item_map}}

Occurrences(msgs, m) == Cardinality({i \in DOMAIN msgs : msgs[i] = m})

(***************************************************************************)
(* C8. MappingValidator: every rule id of json_map is inspected; error_msg *)
(* holds exactly one message "{id} is not defined." for each id missing    *)
(* from item_map and none for the others; all messages are raised          *)
(* together; is_valid_mapping returns true iff there is no violation.      *)
(***************************************************************************)
C8_ValidatorCollectsAll ==
    /\ \A id \in Ids :
          Occurrences(error_msg, NotDefined(id)) = IF id \in InspectedMissing THEN 1 ELSE 0
    /\ Len(error_msg) = Cardinality(InspectedMissing)
    /\ (call \in {"validate_mapping", "is_valid_mapping"} /\ status # "running") =>
          /\ cur = Len(json_map)
          /\ call = "validate_mapping" => (status = "raised" <=> error_msg # <<>>)
          /\ call = "is_valid_mapping" =>
                (status = "returned" /\ result = B(error_msg = <<>>))

\* is_valid_mapping returned False after two violations were collected,
\* the first of them followed by an id that is defined.
C8_Witness ==
    /\ call = "is_valid_mapping"
    /\ status = "returned"
    /\ result = B(FALSE)
    /\ Len(error_msg) = 2
    /\ Len(json_map) = 3
    /\ json_map[2].k \in DOMAIN item_map

(***************************************************************************)
(* Reading the output tree. A position is a sequence of steps, K(k) into   *)
(* the dict key k and I(i) into the list element i (from 1).               *)
(***************************************************************************)
K(k) == [key |-> k]
I(i) == [idx |-> i]
Missing == [t |-> "missing"]

RECURSIVE At(_, _)
At(node, pos) ==
    IF pos = <<>> THEN node
    ELSE IF "key" \in DOMAIN pos[1] THEN
        IF IsDict(node) /\ pos[1].key \in DOMAIN node.o
        THEN At(node.o[pos[1].key], Tail(pos)) ELSE Missing
    ELSE
        IF IsList(node) /\ pos[1].idx <= Len(node.l)
        THEN At(node.l[pos[1].idx], Tail(pos)) ELSE Missing

Prefixed(pre_pos, entries) == { [e EXCEPT !.pos = pre_pos \o e.pos] : e \in entries }

\* The segment at which the writing of a rule ends: the last one, or with
\* cut the first one of kind "value".
EndsHere(item_map_keys, kinds, cut) ==
    Len(item_map_keys) = 1 \/ (cut /\ kinds[1] = "value")

\* The leaves [pos, val] a rule is to write: the first diff "array" keys lead
\* into element 1, the following ones into element i for source element i.
RECURSIVE Leaves(_, _, _, _, _)
Leaves(item_map_keys, kinds, json_value, diff, cut) ==
    IF EndsHere(item_map_keys, kinds, cut)
    THEN {[pos |-> <<K(item_map_keys[1])>>, val |-> json_value]}
    ELSE IF kinds[1] # "array" THEN
        Prefixed(<<K(item_map_keys[1])>>,
                 Leaves(Tail(item_map_keys), Tail(kinds), json_value, diff, cut))
    ELSE IF diff > 0 THEN
        Prefixed(<<K(item_map_keys[1]), I(1)>>,
                 Leaves(Tail(item_map_keys), Tail(kinds), json_value, diff - 1, cut))
    ELSE IF ~IsList(json_value) THEN {}
    ELSE UNION { Prefixed(<<K(item_map_keys[1]), I(i)>>,
                          Leaves(Tail(item_map_keys), Tail(kinds), json_value.l[i], 0, cut))
                 : i \in DOMAIN json_value.l }

\* The "array" keys of a rule, [pos, wrap, len]: wrap for one of the first
\* diff ones, len the length of the source list at that level otherwise.
RECURSIVE Arrays(_, _, _, _, _)
Arrays(item_map_keys, kinds, json_value, diff, cut) ==
    IF EndsHere(item_map_keys, kinds, cut) THEN {}
    ELSE IF kinds[1] # "array" THEN
        Prefixed(<<K(item_map_keys[1])>>,
                 Arrays(Tail(item_map_keys), Tail(kinds), json_value, diff, cut))
    ELSE IF diff > 0 THEN
        {[pos |-> <<K(item_map_keys[1])>>, wrap |-> TRUE, len |-> 1]} \cup
        Prefixed(<<K(item_map_keys[1]), I(1)>>,
                 Arrays(Tail(item_map_keys), Tail(kinds), json_value, diff - 1, cut))
    ELSE IF ~IsList(json_value)
    THEN {[pos |-> <<K(item_map_keys[1])>>, wrap |-> FALSE, len |-> 0 - 1]}
    ELSE {[pos |-> <<K(item_map_keys[1])>>, wrap |-> FALSE, len |-> Len(json_value.l)]} \cup
         UNION { Prefixed(<<K(item_map_keys[1]), I(i)>>,
                          Arrays(Tail(item_map_keys), Tail(kinds), json_value.l[i], 0, cut))
                 : i \in DOMAIN json_value.l }

\* The value and diff_array the last rule writes with (lines 284-301).
LastWritten == Reconcile(LastKinds.v, LastValue.v)
LastDiff == DiffArray(LastKinds.v, LastWritten.v)
LastLeaves(cut) == Leaves(LastKeys, LastKinds.v, LastWritten.v, LastDiff, cut)
LastArrayKeys(cut) == Arrays(LastKeys, LastKinds.v, LastWritten.v, LastDiff, cut)

HoldsList(tree, pos, n) == IsList(At(tree, pos)) /\ Len(At(tree, pos).l) = n
Absent(tree, pos) == At(tree, pos) = Missing \/ Falsy(At(tree, pos))

C3_Collapse ==
    (Called /\ LastDim - LastArrays = 1) =>
        /\ LastWritten.err = ""
        /\ LastValue.v.l # <<>>
        /\ LastWritten.v = LastValue.v.l[1]
        /\ LastDiff = 0
        /\ [err |-> error, m |-> metadata] =
              CreateMetadataOfAProperty(pre, LastKeys, LastKinds.v, LastValue.v.l[1])

\* The rule before the last one has the same source path and the same
\* target path as the last one, and both called the tree builder.
Reapplied ==
    /\ Called
    /\ cur >= 2
    /\ json_map[cur - 1].v = Last.v
    /\ json_map[cur - 1].k \in DOMAIN item_map
    /\ item_map[json_map[cur - 1].k] = LastKeys

\* The "array" keys the last rule replicates with at least one element.
Replicated == {a \in LastArrayKeys(TRUE) : ~a.wrap /\ a.len >= 1}

(***************************************************************************)
(* C6 as stated. Re-applying a rule with the same value: a rule that       *)
(* writes into a replicate-created list appends new elements, so the list  *)
(* grows.                                                                  *)
(***************************************************************************)
C6_ReapplyAppendsAsStated ==
    (Reapplied /\ error = "" /\ Replicated # {}) =>
        \E a \in Replicated :
            /\ IsList(At(pre, a.pos)) /\ IsList(At(metadata, a.pos))
            /\ Len(At(metadata, a.pos).l) > Len(At(pre, a.pos).l)

(***************************************************************************)
(* C6 amended. Re-applying a rule (same target path, same kinds, same      *)
(* extracted value) to the tree it has just been applied to raises nothing *)
(* and leaves the tree exactly as it was: scalar leaves are overwritten    *)
(* with the same value, and the elements of a replicate-created list are   *)
(* written again in place, so no list grows and apply is idempotent for    *)
(* array-producing rules too.                                              *)
(***************************************************************************)
C6_ReapplyIdempotent ==
    Reapplied =>
        /\ error = ""
        /\ metadata = pre
        /\ \A a \in LastArrayKeys(TRUE) :
              IsList(At(pre, a.pos)) => Len(At(metadata, a.pos).l) = Len(At(pre, a.pos).l)

\* [[x],[y,z]] was written twice to p.s.u: the lists keep their lengths.
C6_Witness ==
    /\ Reapplied
    /\ LastKeys = <<"p", "s", "u">>
    /\ LastDim = 2
    /\ HoldsList(pre, <<K("p")>>, 2)
    /\ HoldsList(metadata, <<K("p"), I(2), K("s")>>, 2)

\* Rule i called the tree builder and it returned.
Applied(i) ==
    /\ i \in 1..cur
    /\ (i = cur => error = "")
    /\ GetJsonMetadataValue(json, json_map[i].v).v # None
    /\ json_map[i].k \in DOMAIN item_map

\* The leaves rule i wrote, each at the place the code put it.
LeavesOf(i) ==
    LET keys == item_map[json_map[i].k]
        kinds == GetTypeOfItemTypePath(ItemTypeSchema, keys).v
        written == Reconcile(kinds, GetJsonMetadataValue(json, json_map[i].v).v).v
    IN  Leaves(keys, kinds, written, DiffArray(kinds, written), TRUE)

DistinctTargets ==
    \A i, j \in 1..cur :
        (Applied(i) /\ Applied(j) /\ i # j) =>
            item_map[json_map[i].k] # item_map[json_map[j].k]

(***************************************************************************)
(* C10. Prefix merging: when the rules applied so far have pairwise        *)
(* different target paths, no rule has removed or changed a leaf an        *)
(* earlier rule wrote: the leaves of every applied rule are in the tree.   *)
(***************************************************************************)
C10_PrefixMerging ==
    DistinctTargets =>
        \A i \in 1..cur :
            Applied(i) => \A l \in LeavesOf(i) : At(metadata, l.pos) = l.val

\* The "array" keys at which the last rule ran the replicate branch.
LastReplicateKeys == {a \in LastArrayKeys(TRUE) : ~a.wrap}

(***************************************************************************)
(* C11 as stated. Array reuse length: when a rule that replicates a list   *)
(* of length n at an "array" key completes, the list held at that key has  *)
(* exactly n elements and element i holds the leaf of source element i,    *)
(* whatever list an earlier rule of the pass left at that key.             *)
(***************************************************************************)
C11_ReuseLengthAsStated ==
    (Called /\ error = "") =>
        /\ \A a \in LastReplicateKeys : HoldsList(metadata, a.pos, a.len)
        /\ (LastReplicateKeys # {}) =>
              \A l \in LastLeaves(TRUE) : At(metadata, l.pos) = l.val

(***************************************************************************)
(* C11 amended. Array reuse length: when a rule that replicates a list of  *)
(* length n at an "array" key completes, the key holds a list of at least  *)
(* n elements and element i holds the leaf of source element i for every   *)
(* i < n.  The list has exactly n elements when the key held no non-empty  *)
(* list before the rule; a non-empty list left by an earlier rule (by      *)
(* replicate or by single-wrap) is kept with its own length, which is then *)
(* at least n, its elements from n on untouched.  The rule does not        *)
(* complete when the list held is non-empty and shorter than n.            *)
(***************************************************************************)
C11_ReuseLength ==
    /\ (Called /\ error = "") =>
          /\ \A a \in LastReplicateKeys :
                /\ IsList(At(metadata, a.pos))
                /\ Len(At(metadata, a.pos).l) >= a.len
                /\ Absent(pre, a.pos) => Len(At(metadata, a.pos).l) = a.len
                /\ ~Absent(pre, a.pos) =>
                      /\ IsList(At(pre, a.pos))
                      /\ Len(At(metadata, a.pos).l) = Len(At(pre, a.pos).l)
                      /\ \A i \in (a.len + 1)..Len(At(pre, a.pos).l) :
                            At(metadata, a.pos).l[i] = At(pre, a.pos).l[i]
          /\ (LastReplicateKeys # {}) =>
                \A l \in LastLeaves(TRUE) : At(metadata, l.pos) = l.val
    /\ (Called /\ \E a \in LastReplicateKeys :
                      /\ IsList(At(pre, a.pos))
                      /\ At(pre, a.pos).l # <<>>
                      /\ Len(At(pre, a.pos).l) < a.len) => error # ""

\* A one-element list is replicated into r at the key p, where an earlier
\* rule left a list of two objects: p keeps both, the first one gets r.
C11_Witness ==
    /\ Called /\ error = ""
    /\ LastKeys = <<"p", "r">>
    /\ LastReplicateKeys = {[pos |-> <<K("p")>>, wrap |-> FALSE, len |-> 1]}
    /\ HoldsList(pre, <<K("p")>>, 2)
    /\ HoldsList(metadata, <<K("p")>>, 2)
    /\ At(metadata, <<K("p"), I(1), K("r")>>) = S("x")
    /\ At(metadata, <<K("p"), I(2)>>) = At(pre, <<K("p"), I(2)>>)

====
